---- MODULE Spec2Model ----
(***************************************************************************)
(* Model of the event-replay engine of src/src/main.rs: the ClientAccount  *)
(* transitions (withdraw, dispute, deposit, charge_back, resolve), the     *)
(* dispatcher AccountProcessing::process_event / apply, and the replay     *)
(* loop AccountProcessing::run with its transaction_amount ledger.         *)
(*                                                                         *)
(* Balances are u64.  One unit of the model stands for 2^64 / U64Modulus   *)
(* fixed-point units, so that the values 0 .. U64Modulus - 1 are the u64   *)
(* values that are multiples of that unit; sums and differences of such    *)
(* values are again such values, and a sum overflows u64 exactly when the  *)
(* sum of the model values reaches U64Modulus.                             *)
(***************************************************************************)
EXTENDS Integers, Sequences, FiniteSets, TLC

\* ---- bounds ----------------------------------------------------------
U64Modulus == 4
MaxAmount == 2
MaxClient == 2
MaxTx == 2
MaxEvents == 3
MaxCalls == 2
MaxOneClientEvents == 6

\* ---- the data model --------------------------------------------------
Amounts == 0 .. MaxAmount
Clients == 1 .. MaxClient
TxIds == 1 .. MaxTx
U64 == 0 .. (U64Modulus - 1)

\* Option<u64>: None is the empty sequence, Some(v) is <<v>>.
None == << >>
Some(v) == << v >>
OptionAmounts == {None} \cup {Some(a) : a \in Amounts \ {0}}
unwrap_or(opt, default) == IF opt = None THEN default ELSE opt[1]

AccountActions == {"Withdrawal", "Deposit", "Dispute", "ChargeBack", "Resolve"}

\* The two kinds of record of the input: the amount-bearing ones and the
\* dispute family, which names an earlier transaction.
AmountBearing == {"Deposit", "Withdrawal"}
DisputeFamily == {"Dispute", "Resolve", "ChargeBack"}

AccountEvent ==
    [transaction_id : TxIds, action_type : AccountActions,
     client_id : Clients, amount : OptionAmounts]

\* The value of `event` before the first record has been read.
NoEvent ==
    [transaction_id |-> 0, action_type |-> "NoEvent", client_id |-> 0, amount |-> None]

VARIABLES
    accounts,            \* AccountProcessing.accounts: client id -> ClientAccount
    transaction_amount,  \* AccountProcessing.transaction_amount: tx id -> amount
    overflow_checks,     \* build profile: TRUE = arithmetic overflow panics, FALSE = it wraps
    pc,                  \* "running", "done", "panicked"; "unit" for direct method calls
    event,               \* the event of the last iteration of run's closure
    outcome,             \* what the last iteration did: "none", "skipped", "applied", "rejected", "panicked"
    fault,               \* arithmetic fault raised by the last iteration: "none", "overflow", "underflow"
    consumed,            \* number of events run has taken from the stream
    seen,                \* transaction ids of the Deposit/Withdrawal events taken so far
    start,               \* the account a sequence of direct method calls started from
    calls,               \* the direct method calls made so far: <<[method, amount], ...>>
    audit                \* bookkeeping of what the events taken so far did (see AuditOf)

vars == <<accounts, transaction_amount, overflow_checks, pc, event, outcome, fault,
          consumed, seen, start, calls, audit>>

\* ---- u64 arithmetic ---------------------------------------------------
\* `+=` and `-=` on u64: the wrapped value and the fault the operation raises.
add_u64(a, b) ==
    [val |-> (a + b) % U64Modulus,
     trap |-> IF a + b >= U64Modulus THEN "overflow" ELSE "none"]

sub_u64(a, b) ==
    [val |-> (a - b) % U64Modulus,
     trap |-> IF a < b THEN "underflow" ELSE "none"]

\* A faulting operation panics when the build checks overflow, else it wraps.
Panics(r) == overflow_checks /\ r.trap # "none"

\* Results of a ClientAccount method: the account as the method left it, the
\* fault it raised, whether it panicked, and whether it got past its guards.
Rejected(self) == [acc |-> self, fault |-> "none", panic |-> FALSE, applied |-> FALSE]
Panicked(self, r) == [acc |-> self, fault |-> r.trap, panic |-> TRUE, applied |-> FALSE]
Applied(self, f) == [acc |-> self, fault |-> f, panic |-> FALSE, applied |-> TRUE]
Worst(f, g) == IF f # "none" THEN f ELSE g

\* ---- ClientAccount ----------------------------------------------------
ClientAccount_new(id, dep) ==
    [id |-> id, available |-> dep, held |-> 0, locked |-> FALSE]

\* withdraw without its check of amount against available.
withdraw_unguarded(self, amount) ==
    IF self.locked THEN Rejected(self)
    ELSE LET a == sub_u64(self.available, amount)
         IN  IF Panics(a) THEN Panicked(self, a)
             ELSE Applied([self EXCEPT !.available = a.val], a.trap)

\* withdraw checking amount against available + held.
withdraw_counts_held(self, amount) ==
    IF self.locked THEN Rejected(self)
    ELSE IF amount > self.available + self.held THEN Rejected(self)
    ELSE LET a == sub_u64(self.available, amount)
         IN  IF Panics(a) THEN Panicked(self, a)
             ELSE Applied([self EXCEPT !.available = a.val], a.trap)

\* ClientAccount::withdraw
withdraw(self, amount) ==
    IF self.locked THEN Rejected(self)
    ELSE IF amount > self.available THEN Rejected(self)
    ELSE LET a == sub_u64(self.available, amount)
         IN  IF Panics(a) THEN Panicked(self, a)
             ELSE Applied([self EXCEPT !.available = a.val], a.trap)

\* dispute that debits available and forgets to credit held.
dispute_drops_held(self, amount) ==
    IF amount > self.available THEN Rejected(self)
    ELSE LET a == sub_u64(self.available, amount)
         IN  IF Panics(a) THEN Panicked(self, a)
             ELSE Applied([self EXCEPT !.available = a.val], a.trap)

\* ClientAccount::dispute: no lock check; available is debited before held is
\* credited, so a panic of the addition leaves available already reduced.
dispute(self, amount) ==
    IF amount > self.available THEN Rejected(self)
    ELSE LET a == sub_u64(self.available, amount)
             s1 == [self EXCEPT !.available = a.val]
             h == add_u64(self.held, amount)
         IN  IF Panics(a) THEN Panicked(self, a)
             ELSE IF Panics(h) THEN Panicked(s1, h)
             ELSE Applied([s1 EXCEPT !.held = h.val], Worst(a.trap, h.trap))

\* deposit without its lock check.
deposit_ignores_lock(self, amount) ==
    LET a == add_u64(self.available, amount)
    IN  IF Panics(a) THEN Panicked(self, a)
        ELSE Applied([self EXCEPT !.available = a.val], a.trap)

\* ClientAccount::deposit
deposit(self, amount) ==
    IF self.locked THEN Rejected(self)
    ELSE LET a == add_u64(self.available, amount)
         IN  IF Panics(a) THEN Panicked(self, a)
             ELSE Applied([self EXCEPT !.available = a.val], a.trap)

\* charge_back that locks the account before it checks the held funds.
charge_back_locks_first(self, amount) ==
    IF self.held = 0 \/ self.held < amount
    THEN Rejected([self EXCEPT !.locked = TRUE])
    ELSE LET h == sub_u64(self.held, amount)
         IN  IF Panics(h) THEN Panicked(self, h)
             ELSE Applied([self EXCEPT !.held = h.val, !.locked = TRUE], h.trap)

\* charge_back that pays the held funds back into available.
charge_back_refunds(self, amount) ==
    IF self.held = 0 \/ self.held < amount THEN Rejected(self)
    ELSE LET h == sub_u64(self.held, amount)
             a == add_u64(self.available, amount)
         IN  IF Panics(h) THEN Panicked(self, h)
             ELSE IF Panics(a) THEN Panicked([self EXCEPT !.held = h.val], a)
             ELSE Applied([self EXCEPT !.held = h.val, !.available = a.val,
                                       !.locked = TRUE],
                          Worst(h.trap, a.trap))

\* charge_back that forgets to lock the account.
charge_back_no_lock(self, amount) ==
    IF self.held = 0 \/ self.held < amount THEN Rejected(self)
    ELSE LET h == sub_u64(self.held, amount)
         IN  IF Panics(h) THEN Panicked(self, h)
             ELSE Applied([self EXCEPT !.held = h.val], h.trap)

\* ClientAccount::charge_back
charge_back(self, amount) ==
    IF self.held = 0 \/ self.held < amount THEN Rejected(self)
    ELSE LET h == sub_u64(self.held, amount)
         IN  IF Panics(h) THEN Panicked(self, h)
             ELSE Applied([self EXCEPT !.held = h.val, !.locked = TRUE], h.trap)

\* resolve that leaves the lock as it found it.
resolve_keeps_lock(self, amount) ==
    IF self.held = 0 \/ self.held < amount THEN Rejected(self)
    ELSE LET h == sub_u64(self.held, amount)
             s1 == [self EXCEPT !.held = h.val]
             a == add_u64(self.available, amount)
         IN  IF Panics(h) THEN Panicked(self, h)
             ELSE IF Panics(a) THEN Panicked(s1, a)
             ELSE Applied([s1 EXCEPT !.available = a.val],
                          Worst(h.trap, a.trap))

\* resolve that releases the hold without crediting available.
resolve_keeps_funds(self, amount) ==
    IF self.held = 0 \/ self.held < amount THEN Rejected(self)
    ELSE LET h == sub_u64(self.held, amount)
         IN  IF Panics(h) THEN Panicked(self, h)
             ELSE Applied([self EXCEPT !.held = h.val, !.locked = FALSE], h.trap)

\* ClientAccount::resolve
resolve(self, amount) ==
    IF self.held = 0 \/ self.held < amount THEN Rejected(self)
    ELSE LET h == sub_u64(self.held, amount)
             s1 == [self EXCEPT !.held = h.val]
             a == add_u64(self.available, amount)
         IN  IF Panics(h) THEN Panicked(self, h)
             ELSE IF Panics(a) THEN Panicked(s1, a)
             ELSE Applied([s1 EXCEPT !.available = a.val, !.locked = FALSE],
                          Worst(h.trap, a.trap))

\* ---- AccountProcessing ------------------------------------------------
\* The classification with Dispute left out.
needs_lookup_without_dispute(account_action) ==
    \/ account_action = "ChargeBack"
    \/ account_action = "Resolve"

\* AccountProcessing::event_needs_transaction_lookup
event_needs_transaction_lookup(account_action) ==
    \/ account_action = "ChargeBack"
    \/ account_action = "Resolve"
    \/ account_action = "Dispute"

\* A pre-filter that lets every event through.
never_invalid(ledger, account_event) == FALSE

\* AccountProcessing::dispute_action_with_invalid_transaction
dispute_action_with_invalid_transaction(ledger, account_event) ==
    /\ event_needs_transaction_lookup(account_event.action_type)
    /\ account_event.transaction_id \notin DOMAIN ledger

\* AccountProcessing::apply
apply(client_account, ev) ==
    CASE ev.action_type = "Withdrawal" -> withdraw(client_account, unwrap_or(ev.amount, 0))
      [] ev.action_type = "Deposit"    -> deposit(client_account, unwrap_or(ev.amount, 0))
      [] ev.action_type = "Dispute"    -> dispute(client_account, unwrap_or(ev.amount, 0))
      [] ev.action_type = "ChargeBack" -> charge_back(client_account, unwrap_or(ev.amount, 0))
      [] ev.action_type = "Resolve"    -> resolve(client_account, unwrap_or(ev.amount, 0))

\* process_event that takes the first account of the store instead of looking
\* the event's client up.
process_event_first_account(accts, ledger, ev) ==
    LET accts1 == IF ev.client_id \in DOMAIN accts THEN accts
                  ELSE accts @@ (ev.client_id :> ClientAccount_new(ev.client_id, 0))
        first == CHOOSE k \in DOMAIN accts1 : \A d \in DOMAIN accts1 : k <= d
        client_account == accts1[first]
        Store(r) == [accounts |-> [accts1 EXCEPT ![first] = r.acc],
                     fault |-> r.fault, panic |-> r.panic, applied |-> r.applied]
    IN  IF event_needs_transaction_lookup(ev.action_type)
        THEN IF ev.transaction_id \notin DOMAIN ledger
             THEN Store(Rejected(client_account))
             ELSE LET amount == ledger[ev.transaction_id]
                      new_event == [transaction_id |-> ev.transaction_id,
                                    action_type |-> ev.action_type,
                                    client_id |-> ev.client_id,
                                    amount |-> Some(amount)]
                  IN  Store(apply(client_account, new_event))
        ELSE Store(apply(client_account, ev))

\* process_event on the maps `accts` and `ledger`: the account map it leaves,
\* and the fault / panic / applied flags of the transition it dispatched.
process_event(accts, ledger, ev) ==
    LET accts1 == IF ev.client_id \in DOMAIN accts THEN accts
                  ELSE accts @@ (ev.client_id :> ClientAccount_new(ev.client_id, 0))
        client_account == accts1[ev.client_id]
        Store(r) == [accounts |-> [accts1 EXCEPT ![ev.client_id] = r.acc],
                     fault |-> r.fault, panic |-> r.panic, applied |-> r.applied]
    IN  IF event_needs_transaction_lookup(ev.action_type)
        THEN IF ev.transaction_id \notin DOMAIN ledger
             THEN Store(Rejected(client_account))
             ELSE LET amount == ledger[ev.transaction_id]
                      new_event == [transaction_id |-> ev.transaction_id,
                                    action_type |-> ev.action_type,
                                    client_id |-> ev.client_id,
                                    amount |-> Some(amount)]
                  IN  Store(apply(client_account, new_event))
        ELSE Store(apply(client_account, ev))

\* BTreeMap::insert: adds the key, or replaces the value of a key already there.
insert(map, key, value) ==
    IF key \in DOMAIN map THEN [map EXCEPT ![key] = value] ELSE map @@ (key :> value)

\* The bookkeeping after the event `ev`, whose transition did `r` (skipped
\* events pass Rejected).  It is kept beside the program's state and never read
\* by it:
\*   net[c]      applied deposits - applied withdrawals - applied chargebacks of c
\*   lock_tx[c]  while c is locked, the transaction of the applied chargeback
\*               that locked it (0 while c is not locked)
\*   disputed[c] while c is locked, the transaction of the last applied dispute
\*               since it was locked (0 if none)
\*   unlocked    when the event was an applied resolve on a locked account:
\*               what lock_tx and disputed were for it (0, 0 otherwise)
NoAudit ==
    [net |-> [c \in Clients |-> 0],
     lock_tx |-> [c \in Clients |-> 0],
     disputed |-> [c \in Clients |-> 0],
     unlocked |-> [lock_tx |-> 0, disputed |-> 0]]

AuditOf(ev, applied) ==
    LET c == ev.client_id
        t == ev.transaction_id
        kind == ev.action_type
        amt == IF kind \in AmountBearing THEN unwrap_or(ev.amount, 0)
               ELSE IF t \in DOMAIN transaction_amount THEN transaction_amount[t]
               ELSE 0
    IN  [net |-> IF applied /\ kind = "Deposit"
                 THEN [audit.net EXCEPT ![c] = @ + amt]
                 ELSE IF applied /\ kind \in {"Withdrawal", "ChargeBack"}
                 THEN [audit.net EXCEPT ![c] = @ - amt]
                 ELSE audit.net,
         lock_tx |-> IF applied /\ kind = "ChargeBack"
                     THEN [audit.lock_tx EXCEPT ![c] = t]
                     ELSE IF applied /\ kind = "Resolve"
                     THEN [audit.lock_tx EXCEPT ![c] = 0]
                     ELSE audit.lock_tx,
         disputed |-> IF applied /\ kind = "Dispute" /\ audit.lock_tx[c] # 0
                      THEN [audit.disputed EXCEPT ![c] = t]
                      ELSE IF applied /\ kind \in {"Resolve", "ChargeBack"}
                      THEN [audit.disputed EXCEPT ![c] = 0]
                      ELSE audit.disputed,
         unlocked |-> IF applied /\ kind = "Resolve"
                      THEN [lock_tx |-> audit.lock_tx[c], disputed |-> audit.disputed[c]]
                      ELSE [lock_tx |-> 0, disputed |-> 0]]

\* One iteration of the closure of run, for the record `ev`.
Iterate(ev) ==
    /\ pc = "running"
    /\ consumed' = consumed + 1
    /\ event' = ev
    /\ seen' = IF ev.action_type \in AmountBearing THEN seen \cup {ev.transaction_id}
               ELSE seen
    /\ IF dispute_action_with_invalid_transaction(transaction_amount, ev)
       THEN /\ outcome' = "skipped"
            /\ fault' = "none"
            /\ audit' = AuditOf(ev, FALSE)
            /\ UNCHANGED <<accounts, transaction_amount, pc>>
       ELSE LET r == process_event(accounts, transaction_amount, ev)
            IN  /\ accounts' = r.accounts
                /\ fault' = r.fault
                /\ audit' = AuditOf(ev, r.applied)
                /\ outcome' = IF r.panic THEN "panicked"
                              ELSE IF r.applied THEN "applied" ELSE "rejected"
                /\ pc' = IF r.panic THEN "panicked" ELSE "running"
                /\ transaction_amount' =
                       IF ~r.panic /\ ~event_needs_transaction_lookup(ev.action_type)
                       THEN insert(transaction_amount, ev.transaction_id,
                                   unwrap_or(ev.amount, 0))
                       ELSE transaction_amount
    /\ UNCHANGED <<overflow_checks, start, calls>>

\* An iteration of run on a stream of at most MaxEvents records.
RunEvent(ev) == consumed < MaxEvents /\ Iterate(ev)

\* Client and transaction identifiers are only ever compared for equality, so
\* the stream names them in order of first use: the next record names a client
\* that has an account or the least client without one, and a transaction the
\* ledger has seen or the least one it has not.
FreshClient == Cardinality(DOMAIN accounts) + 1
FreshTx == Cardinality(seen) + 1

\* The records the stream can hold next for an action type: a deposit or
\* withdrawal carries an amount or none; the amount column of a dispute,
\* resolve or chargeback is empty.
Records(action) ==
    { ev \in AccountEvent :
        /\ ev.action_type = action
        /\ ev.client_id <= FreshClient
        /\ ev.transaction_id <= FreshTx
        /\ ev.action_type \in DisputeFamily => ev.amount = None }

RunDeposit == \E ev \in Records("Deposit") : RunEvent(ev)
RunWithdrawal == \E ev \in Records("Withdrawal") : RunEvent(ev)
RunDispute == \E ev \in Records("Dispute") : RunEvent(ev)
RunResolve == \E ev \in Records("Resolve") : RunEvent(ev)
RunChargeBack == \E ev \in Records("ChargeBack") : RunEvent(ev)

\* The end of the stream: display() prints each account, adding available and held.
Display ==
    /\ pc = "running"
    /\ LET over == \E c \in DOMAIN accounts :
                       add_u64(accounts[c].available, accounts[c].held).trap # "none"
       IN  /\ pc' = IF overflow_checks /\ over THEN "panicked" ELSE "done"
           /\ fault' = IF over THEN "overflow" ELSE "none"
           /\ outcome' = IF overflow_checks /\ over THEN "panicked" ELSE "none"
    /\ UNCHANGED <<accounts, transaction_amount, overflow_checks, event, consumed,
                   seen, start, calls, audit>>

NoAccounts == [c \in {} |-> ClientAccount_new(c, 0)]
NoLedger == [t \in {} |-> 0]

\* main: both maps start empty (Default::default()).
Init ==
    /\ accounts = NoAccounts
    /\ transaction_amount = NoLedger
    /\ overflow_checks \in BOOLEAN
    /\ pc = "running"
    /\ event = NoEvent
    /\ outcome = "none"
    /\ fault = "none"
    /\ consumed = 0
    /\ seen = {}
    /\ start = ClientAccount_new(0, 0)
    /\ calls = << >>
    /\ audit = NoAudit

Next ==
    \/ RunDeposit
    \/ RunWithdrawal
    \/ RunDispute
    \/ RunResolve
    \/ RunChargeBack
    \/ Display

Spec == Init /\ [][Next]_vars

\* ---- direct calls of the ClientAccount methods -------------------------
\* The unit tests build one account and call its methods in sequence.  Here the
\* account starts in any state (every (available, held, locked) is a state an
\* event stream can produce) and every method is called with any u64 amount.
UnitClient == 14

AccountStates ==
    [id : {UnitClient}, available : U64, held : U64, locked : BOOLEAN]

Call(method, amount, r) ==
    /\ pc = "unit"
    /\ Len(calls) < MaxCalls
    /\ accounts' = [accounts EXCEPT ![UnitClient] = r.acc]
    /\ calls' = Append(calls, [method |-> method, amount |-> amount])
    /\ fault' = r.fault
    /\ outcome' = IF r.panic THEN "panicked"
                  ELSE IF r.applied THEN "applied" ELSE "rejected"
    /\ pc' = IF r.panic THEN "panicked" ELSE "unit"
    /\ UNCHANGED <<transaction_amount, overflow_checks, event, consumed, seen, start,
                   audit>>

CallWithdraw ==
    \E a \in U64 : Call("withdraw", a, withdraw(accounts[UnitClient], a))
CallDispute ==
    \E a \in U64 : Call("dispute", a, dispute(accounts[UnitClient], a))
CallDeposit ==
    \E a \in U64 : Call("deposit", a, deposit(accounts[UnitClient], a))
CallChargeBack ==
    \E a \in U64 : Call("charge_back", a, charge_back(accounts[UnitClient], a))
CallResolve ==
    \E a \in U64 : Call("resolve", a, resolve(accounts[UnitClient], a))

InitAccount ==
    /\ start \in AccountStates
    /\ accounts = (UnitClient :> start)
    /\ transaction_amount = NoLedger
    /\ overflow_checks \in BOOLEAN
    /\ pc = "unit"
    /\ event = NoEvent
    /\ outcome = "none"
    /\ fault = "none"
    /\ consumed = 0
    /\ seen = {}
    /\ calls = << >>
    /\ audit = NoAudit

NextAccount ==
    \/ CallWithdraw
    \/ CallDispute
    \/ CallDeposit
    \/ CallChargeBack
    \/ CallResolve

SpecAccount == InitAccount /\ [][NextAccount]_vars

\* ---- direct calls of process_event -------------------------------------
\* process_event is public: a caller can hand it an event without the check
\* that run makes first, and without the ledger insertion that run makes after.
ProcessEventCall(ev) ==
    /\ pc = "running"
    /\ consumed + Len(calls) < MaxCalls
    /\ event' = ev
    /\ calls' = Append(calls, [method |-> "process_event",
                               amount |-> unwrap_or(ev.amount, 0)])
    /\ LET r == process_event(accounts, transaction_amount, ev)
       IN  /\ accounts' = r.accounts
           /\ fault' = r.fault
           /\ audit' = AuditOf(ev, r.applied)
           /\ outcome' = IF r.panic THEN "panicked"
                         ELSE IF r.applied THEN "applied" ELSE "rejected"
           /\ pc' = IF r.panic THEN "panicked" ELSE "running"
    /\ UNCHANGED <<transaction_amount, overflow_checks, consumed, seen, start>>

ProcessDeposit == \E ev \in Records("Deposit") : ProcessEventCall(ev)
ProcessWithdrawal == \E ev \in Records("Withdrawal") : ProcessEventCall(ev)
ProcessDispute == \E ev \in Records("Dispute") : ProcessEventCall(ev)
ProcessResolve == \E ev \in Records("Resolve") : ProcessEventCall(ev)
ProcessChargeBack == \E ev \in Records("ChargeBack") : ProcessEventCall(ev)

\* A deposit read by run, which also fills the ledger.
LedgerDeposit == consumed + Len(calls) < MaxCalls /\ RunDeposit

NextProcess ==
    \/ LedgerDeposit
    \/ ProcessDeposit
    \/ ProcessWithdrawal
    \/ ProcessDispute
    \/ ProcessResolve
    \/ ProcessChargeBack

SpecProcess == Init /\ [][NextProcess]_vars

\* ---- the stream of one client -------------------------------------------
\* run on a longer stream whose records all name the first client and whose
\* deposits and withdrawals each carry a transaction id of their own.
OneClientEvent(ev) ==
    /\ consumed < MaxOneClientEvents
    /\ ev.client_id = 1
    /\ ev.action_type \in AmountBearing => ev.transaction_id = FreshTx
    /\ Iterate(ev)

OneClientDeposit == \E ev \in Records("Deposit") : OneClientEvent(ev)
OneClientWithdrawal == \E ev \in Records("Withdrawal") : OneClientEvent(ev)
OneClientDispute == \E ev \in Records("Dispute") : OneClientEvent(ev)
OneClientResolve == \E ev \in Records("Resolve") : OneClientEvent(ev)
OneClientChargeBack == \E ev \in Records("ChargeBack") : OneClientEvent(ev)

NextOneClient ==
    \/ OneClientDeposit
    \/ OneClientWithdrawal
    \/ OneClientDispute
    \/ OneClientResolve
    \/ OneClientChargeBack
    \/ Display

SpecOneClient == Init /\ [][NextOneClient]_vars

\* ---- the claims -------------------------------------------------------
\* A step of run that takes one record from the stream.
TakesEvent == consumed' = consumed + 1

\* The amount the last event carried, as apply reads it.
EventAmount == unwrap_or(event.amount, 0)

\* C1: in every state reachable by replaying events through run, every account
\* has available >= 0 and held >= 0 (both stay inside the u64 range), and no
\* transition has subtracted more than the bucket it debits held: no
\* subtraction underflows.
C1_BalancesNeverNegative ==
    /\ \A c \in DOMAIN accounts :
          /\ accounts[c].available >= 0 /\ accounts[c].available < U64Modulus
          /\ accounts[c].held >= 0 /\ accounts[c].held < U64Modulus
    /\ fault # "underflow"

\* C1 witness: an unlocked account has just refused a withdrawal of more than
\* its available funds.
C1_Witness ==
    /\ event.action_type = "Withdrawal"
    /\ outcome = "rejected"
    /\ event.client_id \in DOMAIN accounts
    /\ ~accounts[event.client_id].locked
    /\ accounts[event.client_id].available > 0
    /\ EventAmount > accounts[event.client_id].available

\* C2: a dispute, resolve or chargeback whose transaction identifier no earlier
\* deposit or withdrawal of the stream has recorded changes nothing: no account
\* is created, no account changes and the ledger is unchanged.  The dropped
\* event is never retried: a later deposit or withdrawal (also one with that
\* identifier) leaves held and locked of every account as they were.
C2_UnknownTransactionHasNoEffect ==
    [][TakesEvent =>
         /\ (event'.action_type \in DisputeFamily /\ event'.transaction_id \notin seen)
               => (accounts' = accounts /\ transaction_amount' = transaction_amount)
         /\ event'.action_type \in AmountBearing
               => \A c \in DOMAIN accounts' :
                     IF c \in DOMAIN accounts
                     THEN /\ accounts'[c].held = accounts[c].held
                          /\ accounts'[c].locked = accounts[c].locked
                     ELSE /\ accounts'[c].held = 0
                          /\ ~accounts'[c].locked]_vars

\* C2 witness: a dispute-family event of a client without an account, naming a
\* transaction the ledger does not hold, was skipped while another client has
\* an account and the ledger holds another transaction.
C2_Witness ==
    /\ event.action_type \in DisputeFamily
    /\ outcome = "skipped"
    /\ event.transaction_id \notin DOMAIN transaction_amount
    /\ event.client_id \notin DOMAIN accounts
    /\ DOMAIN accounts # {}
    /\ DOMAIN transaction_amount # {}

\* total = available + held of a client, as display computes it: the u64 sum
\* (0 for a client without account).
Total(accts, c) ==
    IF c \in DOMAIN accts
    THEN (accts[c].available + accts[c].held) % U64Modulus
    ELSE 0

\* The change of the total of client c in a step, in u64 arithmetic.
TotalChange(c) == (Total(accounts', c) - Total(accounts, c)) % U64Modulus
Plus(amount) == amount % U64Modulus
Minus(amount) == (0 - amount) % U64Modulus

\* The last event was one of client c and its transition was applied.
AppliedTo(c) == event'.client_id = c /\ outcome' = "applied"

Account == accounts[UnitClient]

\* The calls so far are exactly method m1 with amount a, then m2 with amount a.
CalledPair(m1, m2, a) ==
    /\ Len(calls) = 2
    /\ calls[1] = [method |-> m1, amount |-> a]
    /\ calls[2] = [method |-> m2, amount |-> a]

\* The calls so far are exactly one call of method m with amount a.
CalledOnce(m, a) == calls = << [method |-> m, amount |-> a] >>

C6_WithdrawGuard ==
    \A a \in U64 :
        CalledOnce("withdraw", a) =>
            /\ pc # "panicked"
            /\ a > start.available => Account = start
            /\ (a <= start.available /\ ~start.locked) =>
                  Account = [start EXCEPT !.available = start.available - a]

\* C6 witness: a withdrawal of more than available, but no more than available
\* plus held, was refused by an unlocked account.
C6_Witness ==
    \E a \in U64 :
        /\ CalledOnce("withdraw", a)
        /\ ~start.locked
        /\ a > start.available
        /\ a <= start.available + start.held
        /\ outcome = "rejected"

\* C7: on a locked account every deposit and every withdrawal, of any amount,
\* leaves available, held and locked as they were.
C7_LockedAccountRefusesDepositAndWithdrawal ==
    \A a \in U64 :
        ((CalledOnce("deposit", a) \/ CalledOnce("withdraw", a)) /\ start.locked) =>
            /\ pc # "panicked"
            /\ Account = start

\* C7 witness: a locked account with funds was asked to deposit a non-zero
\* amount that would have fitted.
C7_Witness ==
    \E a \in U64 \ {0} :
        /\ CalledOnce("deposit", a)
        /\ start.locked
        /\ start.available + a < U64Modulus
        /\ outcome = "rejected"

\* C8: on a locked account dispute(a) with a <= available moves exactly a from
\* available to held and leaves locked = TRUE; with a > available, and only
\* then, the dispute changes nothing.
C8_DisputeOnLockedAccount ==
    \A a \in U64 :
        (CalledOnce("dispute", a) /\ start.locked) =>
            IF a > start.available
            THEN Account = start
            ELSE /\ pc # "panicked"
                 /\ Account.available = start.available - a
                 /\ Account.held = start.held + a
                 /\ Account.locked

\* ---- claims about the ledger ------------------------------------------
\* C9: after run has consumed any prefix of the stream, the ledger has an entry
\* for transaction t exactly when a deposit or withdrawal with identifier t
\* occurs in the prefix; dispute, resolve and chargeback events add none.
C9_LedgerHoldsExactlyTheAmountBearingTransactions ==
    pc # "panicked" => DOMAIN transaction_amount = seen

\* C9 witness: a dispute-family event naming a transaction without entry has
\* been taken, and the ledger holds only the deposited transaction.
C9_Witness ==
    /\ event.action_type \in DisputeFamily
    /\ event.transaction_id \notin seen
    /\ seen # {}
    /\ DOMAIN transaction_amount = seen

\* C10: a ledger entry is never updated or removed: once the ledger maps t to
\* an amount it maps t to that amount in every later state, also when a later
\* deposit or withdrawal reuses t with another amount.
C10_LedgerEntryNeverChanges ==
    [][\A t \in DOMAIN transaction_amount :
          /\ t \in DOMAIN transaction_amount'
          /\ transaction_amount'[t] = transaction_amount[t]]_vars

\* ---- claims about the run as a whole ----------------------------------
\* C11: for every finite stream run consumes every event and then reaches the
\* final snapshot: a step that takes an event, also a rejected or skipped one,
\* leaves the run consuming, and the snapshot step completes the run.
C11_RunReachesTheSnapshot ==
    [][/\ TakesEvent => pc' = "running"
       /\ (pc = "running" /\ ~TakesEvent) => pc' = "done"]_vars

\* C12: every transition is total over u64: in no reachable state does an
\* addition (available + amount in deposit and resolve, held + amount in
\* dispute) exceed the u64 range.
C12_AdditionsStayInU64 ==
    [][TakesEvent => fault' = "none"]_vars

\* ---- claims about the dispute family ----------------------------------
\* C13: a dispute-family transition is all-or-nothing.  When its guard rejects
\* (dispute with a > available; resolve or chargeback with held = 0 or
\* a > held) available, held and locked all stay as they were; when the guard
\* passes, both balance updates and the lock update are applied together.
C13_DisputeFamilyIsAllOrNothing ==
    \A a \in U64 :
        /\ CalledOnce("dispute", a) =>
              IF a > start.available
              THEN Account = start
              ELSE Account = [start EXCEPT
                                 !.available = sub_u64(start.available, a).val,
                                 !.held = add_u64(start.held, a).val]
        /\ CalledOnce("resolve", a) =>
              IF start.held = 0 \/ a > start.held
              THEN Account = start
              ELSE Account = [start EXCEPT
                                 !.held = sub_u64(start.held, a).val,
                                 !.available = add_u64(start.available, a).val,
                                 !.locked = FALSE]
        /\ CalledOnce("charge_back", a) =>
              IF start.held = 0 \/ a > start.held
              THEN Account = start
              ELSE Account = [start EXCEPT
                                 !.held = sub_u64(start.held, a).val,
                                 !.locked = TRUE]

\* ---- claims about process_event -----------------------------------------
\* A step that is a direct call of process_event.
CallsProcessEvent == Len(calls') = Len(calls) + 1

\* C14: process_event called directly with a dispute, resolve or chargeback
\* whose transaction has no ledger entry drops the event: the account store
\* (its client ids and their three fields) and the ledger are the same after
\* the call as before it, also when the event's client has no account yet.
C14_UnknownTransactionCallChangesNothing ==
    [][(/\ CallsProcessEvent
        /\ event'.action_type \in DisputeFamily
        /\ event'.transaction_id \notin DOMAIN transaction_amount)
          => /\ accounts' = accounts
             /\ transaction_amount' = transaction_amount]_vars

\* ---- claims about the lock --------------------------------------------
\* The account of the client of the last event.
EventAccount == accounts[event.client_id]

\* C15: every applied resolve ends with locked = FALSE, whatever locked was
\* before and whichever transaction caused the lock.
C15_AppliedResolveUnlocks ==
    (event.action_type = "Resolve" /\ outcome = "applied") => ~EventAccount.locked

\* C15 witness: an account locked by the chargeback of one transaction has
\* been unlocked by the resolve of another one, disputed after the lock.
C15_Witness ==
    /\ event.action_type = "Resolve"
    /\ outcome = "applied"
    /\ audit.unlocked.lock_tx \notin {0, event.transaction_id}
    /\ audit.unlocked.disputed = event.transaction_id
    /\ ~EventAccount.locked

\* C16: locked changes from FALSE to TRUE only in a step that applies a
\* chargeback to that account, and from TRUE to FALSE only in a step that
\* applies a resolve to it; every other step (deposit, withdrawal, dispute,
\* rejected or skipped event) leaves it as it was, and a new account starts
\* with locked = FALSE.
C16_LockChangesOnlyByChargebackAndResolve ==
    [][\A c \in DOMAIN accounts' :
          IF c \notin DOMAIN accounts
          THEN ~accounts'[c].locked
          ELSE /\ (~accounts[c].locked /\ accounts'[c].locked) =>
                     /\ TakesEvent
                     /\ event'.client_id = c
                     /\ event'.action_type = "ChargeBack"
                     /\ outcome' = "applied"
               /\ (accounts[c].locked /\ ~accounts'[c].locked) =>
                     /\ TakesEvent
                     /\ event'.client_id = c
                     /\ event'.action_type = "Resolve"
                     /\ outcome' = "applied"]_vars

\* C16 witness: an applied resolve has just taken a locked account, which an
\* applied chargeback had locked, back to locked = FALSE.
C16_Witness ==
    /\ event.action_type = "Resolve"
    /\ outcome = "applied"
    /\ audit.unlocked.lock_tx # 0
    /\ ~EventAccount.locked
    /\ audit.lock_tx[event.client_id] = 0

\* ---- claims about the ledger and the dispute family ---------------------
\* C17: run inserts the ledger entry (tx -> amount, or 0 without amount) for
\* every deposit and withdrawal event it takes, also when the transition was
\* rejected; so a later dispute of a transaction in the ledger (a rejected
\* withdrawal among them) finds that amount and, when the amount is at most
\* available, moves it from available to held.
C17_LedgerKeepsRejectedTransactions ==
    [][TakesEvent =>
          LET c == event'.client_id
              t == event'.transaction_id
          IN  /\ event'.action_type \in AmountBearing =>
                    /\ t \in DOMAIN transaction_amount'
                    /\ transaction_amount'[t] = unwrap_or(event'.amount, 0)
              /\ (/\ event'.action_type = "Dispute"
                  /\ t \in DOMAIN transaction_amount
                  /\ c \in DOMAIN accounts
                  /\ transaction_amount[t] <= accounts[c].available) =>
                    accounts'[c] =
                        [accounts[c] EXCEPT
                            !.available = @ - transaction_amount[t],
                            !.held = @ + transaction_amount[t]]]_vars

\* ---- claims about the clients -------------------------------------------
\* The account the event's transition starts from: the client's account, or
\* the new account process_event creates for a client without one.
AccountBefore(c) ==
    IF c \in DOMAIN accounts THEN accounts[c] ELSE ClientAccount_new(c, 0)

\* C18: an event step changes at most the account of the event's client.  The
\* ledger is looked up by transaction id only: a dispute, resolve or chargeback
\* is applied to the account of the client the event names, created if needed,
\* with the amount stored for the transaction, whoever deposited it, and never
\* touches another account.
C18_OnlyTheEventsClientChanges ==
    [][TakesEvent =>
          LET c == event'.client_id
              t == event'.transaction_id
          IN  /\ DOMAIN accounts \subseteq DOMAIN accounts'
              /\ DOMAIN accounts' \subseteq DOMAIN accounts \cup {c}
              /\ \A d \in DOMAIN accounts \ {c} : accounts'[d] = accounts[d]
              /\ (event'.action_type \in DisputeFamily /\ outcome' = "applied") =>
                    /\ t \in DOMAIN transaction_amount
                    /\ c \in DOMAIN accounts'
                    /\ IF event'.action_type = "Dispute"
                       THEN accounts'[c].available =
                                AccountBefore(c).available - transaction_amount[t]
                       ELSE accounts'[c].held =
                                AccountBefore(c).held - transaction_amount[t]]_vars

\* C18 witness: two clients have each made one deposit, of different amounts,
\* and the second client's dispute of the first client's deposit has moved the
\* first client's amount inside the second client's account.
C18_Witness ==
    /\ consumed = 3
    /\ Cardinality(seen) = 2
    /\ event.action_type = "Dispute"
    /\ outcome = "applied"
    /\ \E a \in DOMAIN accounts \ {event.client_id} :
          /\ audit.net[a] > 0
          /\ audit.net[event.client_id] > audit.net[a]
          /\ transaction_amount[event.transaction_id] = audit.net[a]
          /\ accounts[a] = ClientAccount_new(a, audit.net[a])
          /\ EventAccount.held = audit.net[a]
          /\ EventAccount.available = audit.net[event.client_id] - audit.net[a]

\* C19: in every reachable state, for every client, available + held equals
\* the sum of the client's applied deposits minus the sum of its applied
\* withdrawals minus the sum of the amounts of its applied chargebacks.
C19_TotalIsDepositsMinusWithdrawalsMinusChargebacks ==
    \A c \in DOMAIN accounts :
        accounts[c].available + accounts[c].held = audit.net[c]

\* C20: there is no dispute status per transaction.  (1) A dispute of a
\* transaction in the ledger is applied whenever its amount is at most
\* available, also while the transaction is already under dispute, and each
\* applied dispute moves the amount from available to held again.  (2) A
\* resolve or chargeback of a transaction in the ledger is applied whenever
\* held > 0 and the amount is at most held, also when that transaction was
\* never disputed or has been resolved or charged back before.
C20_NoPerTransactionDisputeStatus ==
    [][TakesEvent =>
          LET c == event'.client_id
              t == event'.transaction_id
              kind == event'.action_type
          IN  (t \in DOMAIN transaction_amount /\ c \in DOMAIN accounts) =>
                 /\ (kind = "Dispute"
                        /\ transaction_amount[t] <= accounts[c].available) =>
                       /\ outcome' = "applied"
                       /\ accounts'[c].held = accounts[c].held + transaction_amount[t]
                       /\ accounts'[c].available =
                              accounts[c].available - transaction_amount[t]
                 /\ (kind \in {"Resolve", "ChargeBack"}
                        /\ accounts[c].held > 0
                        /\ transaction_amount[t] <= accounts[c].held) =>
                       outcome' = "applied"]_vars

\* C21: from the step that applies a chargeback until the step that applies a
\* resolve, neither available nor available + held of the locked account
\* increases: in every step that leaves the account locked both are at most
\* what they were, and a step that raises available of a locked account is an
\* applied resolve that also clears the lock.
C21_LockedAccountNeverGains ==
    [][\A c \in DOMAIN accounts :
          /\ accounts'[c].locked =>
                /\ accounts'[c].available <= accounts[c].available
                /\ accounts'[c].available + accounts'[c].held
                       <= accounts[c].available + accounts[c].held
          /\ (accounts[c].locked /\ accounts'[c].available > accounts[c].available) =>
                /\ TakesEvent
                /\ event'.client_id = c
                /\ event'.action_type = "Resolve"
                /\ outcome' = "applied"
                /\ ~accounts'[c].locked]_vars

\* C21 witness: a locked account with funds has taken an applied dispute of a
\* non-zero amount and is still locked.
C21_Witness ==
    /\ event.action_type = "Dispute"
    /\ outcome = "applied"
    /\ audit.lock_tx[event.client_id] # 0
    /\ audit.disputed[event.client_id] = event.transaction_id
    /\ transaction_amount[event.transaction_id] > 0
    /\ EventAccount.locked
    /\ EventAccount.held >= transaction_amount[event.transaction_id]

====
